---- MODULE Spec2Model ----
(***************************************************************************)
(* Model of the notebook src/datatypes.ipynb: a table (pandas DataFrame)   *)
(* is built once from a literal and then inspected by independent cells:   *)
(* select_dtypes (column classification), min/max/mean/median (numeric     *)
(* summary), value_counts/nunique (categorical summary) and describe().    *)
(*                                                                         *)
(* Values are records [t, i, s]: t is the Python type of the value, i its  *)
(* numeric payload and s its text payload.  A float is held as an exact    *)
(* number of cents (75000.50 is 7500050), so that sums, means and medians  *)
(* are exact rationals [num, den] instead of rounded binary fractions.     *)
(***************************************************************************)
EXTENDS Integers, Sequences, FiniteSets, TLC

\* ------------------------------------------------------------- bounds
MaxCols == 2
MaxRows == 3
MaxCalls == 2

\* ------------------------------------------------------------- values
IntV(n) == [t |-> "int", i |-> n, s |-> ""]
FloatV(c) == [t |-> "float", i |-> c, s |-> ""]
StrV(x) == [t |-> "str", i |-> 0, s |-> x]
BoolV(b) == [t |-> "bool", i |-> b, s |-> ""]
ListV(x) == [t |-> "list", i |-> 0, s |-> x]

MapSeq(f(_), xs) == [k \in 1..Len(xs) |-> f(xs[k])]

\* The literal of the first code cell (dict of column name -> list).
employee_literal ==
  << [name |-> "employee_id",
      values |-> MapSeq(IntV, <<1001, 1002, 1003, 1004, 1005, 1006, 1007, 1008, 1009, 1010>>)],
     [name |-> "name",
      values |-> MapSeq(StrV, <<"Alice Johnson", "Bob Smith", "Carol Davis", "David Wilson",
                                "Eva Brown", "Frank Miller", "Grace Chen", "Henry Taylor",
                                "Iris Garcia", "Jack Anderson">>)],
     [name |-> "department",
      values |-> MapSeq(StrV, <<"Engineering", "Marketing", "Engineering", "Sales", "HR",
                                "Engineering", "Marketing", "Sales", "Finance", "Engineering">>)],
     [name |-> "years_experience",
      values |-> MapSeq(IntV, <<5, 8, 3, 12, 7, 2, 6, 15, 4, 9>>)],
     [name |-> "salary",
      values |-> MapSeq(FloatV, <<7500050, 8200075, 6800000, 9500025, 7100080,
                                  6200000, 7800030, 10500000, 7300060, 8700090>>)],
     [name |-> "education_level",
      values |-> MapSeq(StrV, <<"Bachelor", "Master", "Bachelor", "Master", "Bachelor",
                                "Bachelor", "PhD", "Master", "Bachelor", "Master">>)],
     [name |-> "performance_rating",
      values |-> MapSeq(StrV, <<"Good", "Excellent", "Average", "Excellent", "Good",
                                "Average", "Excellent", "Excellent", "Good", "Good">>)] >>

\* ------------------------------------------------- other, small tables
\* Python value types a column literal may hold; "list" is a nested structure.
Kinds == {"int", "float", "str", "bool", "list"}

\* Two distinct values of each type, the first larger than the second.
SampleValue(kind, p) ==
  CASE kind = "int" -> IntV(IF p = 1 THEN 5 ELSE 2)
    [] kind = "float" -> FloatV(IF p = 1 THEN 150 ELSE 25)
    [] kind = "str" -> StrV(IF p = 1 THEN "x" ELSE "y")
    [] kind = "bool" -> BoolV(IF p = 1 THEN 1 ELSE 0)
    [] OTHER -> ListV(IF p = 1 THEN "[1]" ELSE "[2]")

ColName(j) == CASE j = 1 -> "c1" [] j = 2 -> "c2" [] j = 3 -> "c3" [] OTHER -> "c4"

\* A table of Len(kinds) homogeneous columns, all of Len(pattern) rows.
SmallTable(kinds, pattern) ==
  [j \in 1..Len(kinds) |->
     [name |-> ColName(j),
      values |-> [k \in 1..Len(pattern) |-> SampleValue(kinds[j], pattern[k])]]]

SeqsUpTo(S, n) == UNION {[1..m -> S] : m \in 0..n}

Literals ==
  {employee_literal} \cup
  {SmallTable(kinds, pattern) :
     kinds \in (SeqsUpTo(Kinds, MaxCols) \ {<<>>}), pattern \in SeqsUpTo({1, 2}, MaxRows)}

\* ------------------------------------------------ pd.DataFrame(dict)
\* dtype inference of the DataFrame constructor for one column literal:
\* all int -> int64, int/float with a float -> float64, all bool -> bool,
\* everything else (text, nested lists, mixtures, no rows at all) -> object.
InferDtypeBoolAsInt(values) ==
  LET ts == {values[k].t : k \in 1..Len(values)}
  IN  IF ts = {} THEN "object"
      ELSE IF ts \subseteq {"int", "bool"} THEN "int64"
      ELSE IF ts \subseteq {"int", "float", "bool"} THEN "float64"
      ELSE "object"

InferDtype(values) ==
  LET ts == {values[k].t : k \in 1..Len(values)}
  IN  IF ts = {} THEN "object"
      ELSE IF ts = {"int"} THEN "int64"
      ELSE IF ts \subseteq {"int", "float"} THEN "float64"
      ELSE IF ts = {"bool"} THEN "bool"
      ELSE "object"

\* float64 columns hold floats: an int among floats is converted (5 -> 5.0).
\* The model keeps a column's payloads in one unit, so an int becomes cents.
Upcast(dtype, v) == IF dtype = "float64" /\ v.t = "int" THEN FloatV(100 * v.i) ELSE v

DataFrame(data) ==
  [j \in 1..Len(data) |->
     LET dt == InferDtype(data[j].values)
     IN  [name |-> data[j].name,
          dtype |-> dt,
          values |-> [k \in 1..Len(data[j].values) |-> Upcast(dt, data[j].values[k])]]]

Columns(frame) == [j \in 1..Len(frame) |-> frame[j].name]
Shape(frame) == << (IF Len(frame) = 0 THEN 0 ELSE Len(frame[1].values)), Len(frame) >>
Col(frame, name) == frame[CHOOSE j \in 1..Len(frame) : frame[j].name = name]

\* ------------------------------------------------------ select_dtypes
\* df.select_dtypes(include=[...]).columns.tolist(): the names of the columns
\* whose dtype is listed, in the frame's column order.  It never raises for a
\* column whose dtype is not listed: the column is just not selected.
SelectSkipsLast(frame, include) ==
  Columns(SelectSeq(SubSeq(frame, 1, Len(frame) - 1), LAMBDA c : c.dtype \in include))

select_dtypes(frame, include) ==
  Columns(SelectSeq(frame, LAMBDA c : c.dtype \in include))

\* ------------------------------------------------- numeric reductions
Rat(n, d) == [nan |-> FALSE, num |-> n, den |-> d]
NaN == [nan |-> TRUE, num |-> 0, den |-> 1]
RatEq(a, b) == a.nan = b.nan /\ (~a.nan => a.num * b.den = b.num * a.den)

Payloads(values) == [k \in 1..Len(values) |-> values[k].i]

RECURSIVE SumSeq(_)
SumSeq(xs) == IF xs = <<>> THEN 0 ELSE Head(xs) + SumSeq(Tail(xs))

RECURSIVE InsertAsc(_, _)
InsertAsc(x, sorted) ==
  IF sorted = <<>> THEN <<x>>
  ELSE IF x <= Head(sorted) THEN <<x>> \o sorted
  ELSE <<Head(sorted)>> \o InsertAsc(x, Tail(sorted))

RECURSIVE SortAsc(_)
SortAsc(xs) == IF xs = <<>> THEN <<>> ELSE InsertAsc(Head(xs), SortAsc(Tail(xs)))

SetMin(S) == CHOOSE x \in S : \A y \in S : x <= y
SetMax(S) == CHOOSE x \in S : \A y \in S : y <= x
Range(xs) == {xs[k] : k \in 1..Len(xs)}

\* Series.min() / .max() / .mean(): NaN on a column without rows.
series_min(xs) == IF xs = <<>> THEN NaN ELSE Rat(SetMin(Range(xs)), 1)
series_max(xs) == IF xs = <<>> THEN NaN ELSE Rat(SetMax(Range(xs)), 1)
MeanOfEmptyIsZero(xs) == Rat(SumSeq(xs), IF xs = <<>> THEN 1 ELSE Len(xs))

series_mean(xs) == IF xs = <<>> THEN NaN ELSE Rat(SumSeq(xs), Len(xs))

\* Series.median(): the middle value of the sorted column, the mean of the
\* two middle values when the length is even, NaN without rows.
MedianUnsorted(xs) ==
  LET n == Len(xs)
  IN  IF n = 0 THEN NaN
      ELSE IF n % 2 = 1 THEN Rat(xs[(n + 1) \div 2], 1)
      ELSE Rat(xs[n \div 2] + xs[n \div 2 + 1], 2)

series_median(xs) ==
  LET n == Len(xs)
      sorted == SortAsc(xs)
  IN  IF n = 0 THEN NaN
      ELSE IF n % 2 = 1 THEN Rat(sorted[(n + 1) \div 2], 1)
      ELSE Rat(sorted[n \div 2] + sorted[n \div 2 + 1], 2)

\* What the statistics cells (and a describe() column) compute for a column.
NumericStats(values) ==
  LET xs == Payloads(values)
  IN  [count |-> Len(xs),
       min |-> series_min(xs),
       max |-> series_max(xs),
       mean |-> series_mean(xs),
       median |-> series_median(xs)]

\* ------------------------------------------------ value_counts/nunique
Hashable(values) == \A k \in 1..Len(values) : values[k].t # "list"

\* The distinct values in the order in which they are first seen.
RECURSIVE Uniques(_)
Uniques(values) ==
  IF values = <<>> THEN <<>>
  ELSE LET n == Len(values)
           before == Uniques(SubSeq(values, 1, n - 1))
       IN  IF \E k \in 1..(n - 1) : values[k] = values[n]
           THEN before ELSE Append(before, values[n])

Occurrences(values, v) == Cardinality({k \in 1..Len(values) : values[k] = v})

\* Insert a (category, count) pair behind every pair whose count is at least
\* as large: the sort by descending count keeps equal counts in input order.
RECURSIVE InsertDesc(_, _)
InsertDesc(p, sorted) ==
  IF sorted = <<>> THEN <<p>>
  ELSE IF Head(sorted).count >= p.count THEN <<Head(sorted)>> \o InsertDesc(p, Tail(sorted))
  ELSE <<p>> \o sorted

RECURSIVE SortDesc(_)
SortDesc(ps) ==
  IF ps = <<>> THEN <<>>
  ELSE InsertDesc(ps[Len(ps)], SortDesc(SubSeq(ps, 1, Len(ps) - 1)))

UnsortedCounts(values) ==
  LET us == Uniques(values)
  IN  [k \in 1..Len(us) |-> [category |-> us[k], count |-> Occurrences(values, us[k])]]

ValueCountsUnsorted(values) == UnsortedCounts(values)

\* Series.value_counts(): one pair per distinct value, sorted by descending
\* count.  (Raises TypeError on unhashable values; see SummarizeCategorical.)
value_counts(values) == SortDesc(UnsortedCounts(values))

\* Series.nunique(): the number of distinct values.
nunique(values) == Cardinality(Range(values))

\* ---------------------------------------------------------- describe
NumericDtypes == {"int64", "int32", "float64", "float32"}

\* describe() of one object/bool column: count, unique, top, freq, the last
\* two taken from the first row of value_counts() (absent without rows).
ObjectStats(values) ==
  LET vc == value_counts(values)
  IN  [count |-> Len(values),
       unique |-> Len(vc),
       top |-> IF vc = <<>> THEN <<>> ELSE <<vc[1].category>>,
       freq |-> IF vc = <<>> THEN NaN ELSE Rat(vc[1].count, 1)]

DescribeEveryColumn(frame) ==
  [error |-> "", failed |-> "",
   entries |-> [j \in 1..Len(frame) |->
                  IF frame[j].dtype \in NumericDtypes
                  THEN [name |-> frame[j].name, kind |-> "numeric",
                        stats |-> NumericStats(frame[j].values)]
                  ELSE [name |-> frame[j].name, kind |-> "object",
                        stats |-> ObjectStats(frame[j].values)]]]

\* The object columns of a frame described one after the other, from column j
\* on, `done` being the entries of the columns before j: the first column
\* whose values cannot be hashed raises, and the exception leaves describe()
\* without any entry being returned.
RECURSIVE DescribeObjects(_, _, _)
DescribeObjects(frame, j, done) ==
  IF j > Len(frame) THEN [error |-> "", failed |-> "", entries |-> done]
  ELSE IF ~Hashable(frame[j].values)
  THEN [error |-> "TypeError", failed |-> frame[j].name, entries |-> <<>>]
  ELSE DescribeObjects(frame, j + 1,
                       Append(done, [name |-> frame[j].name, kind |-> "object",
                                     stats |-> ObjectStats(frame[j].values)]))

\* df.describe() with its default arguments: the numeric columns only, each
\* with its numeric statistics (std and the quartiles are left out of the
\* model); a frame without any numeric column is described column by column
\* as objects instead, which raises TypeError on unhashable values.
describe(frame) ==
  LET numeric == SelectSeq(frame, LAMBDA c : c.dtype \in NumericDtypes)
  IN  IF numeric # <<>>
      THEN [error |-> "", failed |-> "",
            entries |-> [j \in 1..Len(numeric) |->
                           [name |-> numeric[j].name, kind |-> "numeric",
                            stats |-> NumericStats(numeric[j].values)]]]
      ELSE DescribeObjects(frame, 1, <<>>)

\* The closing summary table of the notebook: the hand-assigned category of
\* each column of the employee table.
TypeCategory(name) ==
  CASE name \in {"employee_id", "years_experience"} -> "Discrete"
    [] name = "salary" -> "Continuous"
    [] name \in {"name", "department"} -> "NominalCategorical"
    [] name \in {"education_level", "performance_rating"} -> "OrdinalCategorical"
    [] OTHER -> "none"

\* ------------------------------------------------------------- state
VARIABLES
  employee_data,     \* the literal the table is built from
  df,                \* the table
  discrete_cols,     \* the three lists the select_dtypes cell assigns
  continuous_cols,
  categorical_cols,
  out,               \* what the last per-column summary cell printed
  reports,           \* what each describe() call printed, oldest first
  ordinal_cell       \* the run of the two-column value_counts cell, statement by statement

vars == <<employee_data, df, discrete_cols, continuous_cols, categorical_cols, out, reports,
          ordinal_cell>>

\* A name no cell has assigned yet.
Unset == <<"<unset>">>
NotRun == [status |-> "idle", pc |-> 0, printed |-> <<>>, error |-> "", failed |-> ""]
NoOutput == [cell |-> "none", col |-> "", error |-> "", stats |-> <<>>, counts |-> <<>>, unique |-> 0]

Init ==
  /\ employee_data \in Literals
  /\ df = DataFrame(employee_data)
  /\ discrete_cols = Unset
  /\ continuous_cols = Unset
  /\ categorical_cols = Unset
  /\ out = NoOutput
  /\ reports = <<>>
  /\ ordinal_cell = NotRun

\* ------------------------------------------------------------- cells
\* The select_dtypes cell.
ClassifyReassignsDf ==
  /\ discrete_cols' = select_dtypes(df, {"int64", "int32"})
  /\ continuous_cols' = select_dtypes(df, {"float64", "float32"})
  /\ categorical_cols' = select_dtypes(df, {"object"})
  /\ df' = SelectSeq(df, LAMBDA c : c.dtype = "object")
  /\ UNCHANGED <<ordinal_cell, employee_data, out, reports>>

ClassifyBoolAsObject ==
  /\ discrete_cols' = select_dtypes(df, {"int64", "int32"})
  /\ continuous_cols' = select_dtypes(df, {"float64", "float32"})
  /\ categorical_cols' = select_dtypes(df, {"object", "bool"})
  /\ UNCHANGED <<ordinal_cell, employee_data, df, out, reports>>

Classify ==
  /\ discrete_cols' = select_dtypes(df, {"int64", "int32"})
  /\ continuous_cols' = select_dtypes(df, {"float64", "float32"})
  /\ categorical_cols' = select_dtypes(df, {"object"})
  /\ UNCHANGED <<ordinal_cell, employee_data, df, out, reports>>

\* The statistics cells (years_experience, salary): min, max, mean, median of
\* one column.  Applied to numeric columns, and to a column without rows.
SortedInPlace(frame, j) ==
  [frame EXCEPT ![j].values =
     LET sorted == SortAsc(Payloads(frame[j].values))
     IN  [k \in 1..Len(sorted) |-> [frame[j].values[k] EXCEPT !.i = sorted[k]]]]

SummarizeNumericSortsInPlace(j) ==
  /\ df[j].dtype \in NumericDtypes \/ df[j].values = <<>>
  /\ out' = [cell |-> "numeric", col |-> df[j].name, error |-> "",
             stats |-> <<NumericStats(df[j].values)>>, counts |-> <<>>, unique |-> 0]
  /\ df' = SortedInPlace(df, j)
  /\ UNCHANGED <<ordinal_cell, employee_data, discrete_cols, continuous_cols, categorical_cols, reports>>

SummarizeNumeric(j) ==
  /\ df[j].dtype \in NumericDtypes \/ df[j].values = <<>>
  /\ out' = [cell |-> "numeric", col |-> df[j].name, error |-> "",
             stats |-> <<NumericStats(df[j].values)>>, counts |-> <<>>, unique |-> 0]
  /\ UNCHANGED <<ordinal_cell, employee_data, df, discrete_cols, continuous_cols, categorical_cols, reports>>

\* The value_counts / nunique cells (department, education_level,
\* performance_rating) on one column; hashing a nested value raises TypeError.
SummarizeCategoricalRejectsEmpty(j) ==
  /\ out' = IF Hashable(df[j].values) /\ df[j].values # <<>>
            THEN [cell |-> "categorical", col |-> df[j].name, error |-> "",
                  stats |-> <<>>, counts |-> value_counts(df[j].values),
                  unique |-> nunique(df[j].values)]
            ELSE [cell |-> "categorical", col |-> df[j].name,
                  error |-> IF df[j].values = <<>> THEN "EmptyColumnError" ELSE "TypeError",
                  stats |-> <<>>, counts |-> <<>>, unique |-> 0]
  /\ UNCHANGED <<ordinal_cell, employee_data, df, discrete_cols, continuous_cols, categorical_cols, reports>>

SummarizeCategorical(j) ==
  /\ out' = IF Hashable(df[j].values)
            THEN [cell |-> "categorical", col |-> df[j].name, error |-> "",
                  stats |-> <<>>, counts |-> value_counts(df[j].values),
                  unique |-> nunique(df[j].values)]
            ELSE [cell |-> "categorical", col |-> df[j].name, error |-> "TypeError",
                  stats |-> <<>>, counts |-> <<>>, unique |-> 0]
  /\ UNCHANGED <<ordinal_cell, employee_data, df, discrete_cols, continuous_cols, categorical_cols, reports>>

\* The df.dtypes / df.describe() cell.
DescribeTable ==
  /\ Len(reports) < MaxCalls
  /\ reports' = Append(reports, describe(df))
  /\ UNCHANGED <<ordinal_cell, employee_data, df, discrete_cols, continuous_cols, categorical_cols, out>>

\* ---- the two-column value_counts cell, one statement at a time ----
\* The columns the cell names, in the order in which it names them:
\* education_level and performance_rating for the employee table, and every
\* column, in table order, for the other tables.
CellColumns ==
  IF Columns(df) = Columns(DataFrame(employee_literal))
  THEN <<"education_level", "performance_rating">>
  ELSE Columns(df)

\* The statements of the cell: print(df[c].value_counts()) for each column,
\* then print(df[c].nunique()) for each column.
Statements ==
  LET n == Len(CellColumns)
  IN  [k \in 1..(2 * n) |->
         IF k <= n THEN [op |-> "value_counts", col |-> CellColumns[k]]
         ELSE [op |-> "nunique", col |-> CellColumns[k - n]]]

\* What a statement prints.
Printed(st) ==
  IF st.op = "value_counts"
  THEN [op |-> st.op, col |-> st.col, counts |-> value_counts(Col(df, st.col).values), unique |-> 0]
  ELSE [op |-> st.op, col |-> st.col, counts |-> <<>>, unique |-> nunique(Col(df, st.col).values)]

\* Running the cell clears its previous output and starts at its first statement.
RunOrdinalCell ==
  /\ ordinal_cell.status # "running"
  /\ ordinal_cell' = [status |-> "running", pc |-> 1, printed |-> <<>>, error |-> "", failed |-> ""]
  /\ UNCHANGED <<employee_data, df, discrete_cols, continuous_cols, categorical_cols, out, reports>>

StepSkipsFailingStatement ==
  /\ ordinal_cell.status = "running"
  /\ LET st == Statements[ordinal_cell.pc]
         last == ordinal_cell.pc = Len(Statements)
     IN  ordinal_cell' =
           [ordinal_cell EXCEPT
              !.printed = IF Hashable(Col(df, st.col).values) THEN Append(@, Printed(st)) ELSE @,
              !.pc = IF last THEN 0 ELSE @ + 1,
              !.status = IF last THEN "done" ELSE @]
  /\ UNCHANGED <<employee_data, df, discrete_cols, continuous_cols, categorical_cols, out, reports>>

\* One statement of the cell: it prints its result, and the next statement is
\* next; a statement that raises ends the run of the cell, what was printed
\* before staying in the cell's output.
StepOrdinalCell ==
  /\ ordinal_cell.status = "running"
  /\ LET st == Statements[ordinal_cell.pc]
         last == ordinal_cell.pc = Len(Statements)
     IN  ordinal_cell' =
           IF ~Hashable(Col(df, st.col).values)
           THEN [ordinal_cell EXCEPT !.status = "failed", !.pc = 0,
                                     !.error = "TypeError", !.failed = st.col]
           ELSE [ordinal_cell EXCEPT !.printed = Append(@, Printed(st)),
                                     !.pc = IF last THEN 0 ELSE @ + 1,
                                     !.status = IF last THEN "done" ELSE @]
  /\ UNCHANGED <<employee_data, df, discrete_cols, continuous_cols, categorical_cols, out, reports>>

Next ==
  \/ Classify
  \/ \E j \in 1..Len(df) : SummarizeNumeric(j)
  \/ \E j \in 1..Len(df) : SummarizeCategorical(j)
  \/ DescribeTable

Spec == Init /\ [][Next]_vars

\* The multi-step operations at the grain of their steps: the statements of
\* the two-column cell, and the describe() calls.
NextSteps ==
  \/ RunOrdinalCell
  \/ StepOrdinalCell
  \/ DescribeTable

SpecSteps == Init /\ [][NextSteps]_vars

\* ===================================================================
\* Properties
\* ===================================================================
Classified == discrete_cols # Unset
AllBuckets == discrete_cols \o continuous_cols \o categorical_cols
TimesIn(name, names) == Cardinality({k \in 1..Len(names) : names[k] = name})
IsIn(name, names) == TimesIn(name, names) > 0
ColumnIndices == 1..Len(employee_data)
IsEmployeeTable == employee_data = employee_literal

\* What the values of column j of the literal are.
ValuedAs(j, types) ==
  /\ employee_data[j].values # <<>>
  /\ \A k \in 1..Len(employee_data[j].values) : employee_data[j].values[k].t \in types
NoRows(j) == employee_data[j].values = <<>>

\* The names listed in `names` follow the table's column order.
InColumnOrder(names) ==
  \A a, b \in 1..Len(names) :
    a < b => \E x, y \in ColumnIndices :
               x < y /\ employee_data[x].name = names[a] /\ employee_data[y].name = names[b]

\* ---- C1 ----------------------------------------------------------
\* C1 as stated: after classify, every column name of the table appears in
\* exactly one of the three buckets, whatever type the column holds.
C1_EveryColumnInExactlyOneBucket ==
  Classified => \A j \in ColumnIndices : TimesIn(employee_data[j].name, AllBuckets) = 1

\* C1 amended: after classify no column name appears twice across the three
\* buckets, the buckets hold column names only, and a column appears (once)
\* exactly when its dtype is int64/int32, float64/float32 or object; a column
\* of another dtype (bool) is in no bucket.
C1_PartitionOfSelectableColumns ==
  Classified =>
    /\ \A k \in 1..Len(AllBuckets) : \E j \in ColumnIndices : AllBuckets[k] = employee_data[j].name
    /\ \A j \in ColumnIndices :
         TimesIn(employee_data[j].name, AllBuckets) =
           (IF ValuedAs(j, {"bool"}) THEN 0 ELSE 1)

C1_Witness ==
  /\ Classified
  /\ Len(df) = 2
  /\ ValuedAs(1, {"bool"})
  /\ ValuedAs(2, {"str"})
  /\ AllBuckets = <<"c2">>

\* ---- C2 ----------------------------------------------------------
\* C2 as stated: Discrete iff integer-valued, Continuous iff floating-point-
\* valued, Categorical iff text-valued, each bucket in column order, and the
\* stated result on the employee table.
C2_BucketsIffValueType ==
  Classified =>
    /\ \A j \in ColumnIndices :
         /\ IsIn(employee_data[j].name, discrete_cols) <=> ValuedAs(j, {"int"})
         /\ IsIn(employee_data[j].name, continuous_cols) <=> ValuedAs(j, {"float"})
         /\ IsIn(employee_data[j].name, categorical_cols) <=> ValuedAs(j, {"str"})
    /\ InColumnOrder(discrete_cols) /\ InColumnOrder(continuous_cols)
    /\ InColumnOrder(categorical_cols)

EmployeeBuckets ==
  /\ discrete_cols = <<"employee_id", "years_experience">>
  /\ continuous_cols = <<"salary">>
  /\ categorical_cols = <<"name", "department", "education_level", "performance_rating">>

\* C2 amended: Discrete iff the column is integer-valued (dtype int64),
\* Continuous iff it is floating-point-valued (float64), Categorical iff its
\* dtype is object, which text-valued columns have but nested-structure
\* columns and columns without rows have too; each bucket lists its columns in
\* the table's column order; the employee table gives the stated result.
C2_BucketsIffDtype ==
  Classified =>
    /\ \A j \in ColumnIndices :
         /\ IsIn(employee_data[j].name, discrete_cols) <=> ValuedAs(j, {"int"})
         /\ IsIn(employee_data[j].name, continuous_cols) <=> ValuedAs(j, {"float"})
         /\ IsIn(employee_data[j].name, categorical_cols)
              <=> (ValuedAs(j, {"str"}) \/ ValuedAs(j, {"list"}) \/ NoRows(j))
    /\ InColumnOrder(discrete_cols) /\ InColumnOrder(continuous_cols)
    /\ InColumnOrder(categorical_cols)
    /\ IsEmployeeTable => EmployeeBuckets

C2_Witness == IsEmployeeTable /\ Classified /\ EmployeeBuckets

\* ---- C3 ----------------------------------------------------------
HasUnsupportedColumn == \E j \in ColumnIndices : ValuedAs(j, {"bool"}) \/ ValuedAs(j, {"list"})

\* C3 as stated: a table with a column that is neither integer, floating-point
\* nor text is rejected: classify returns no bucket mapping for it.
C3_UnsupportedColumnRejected == HasUnsupportedColumn => ~Classified

\* C3 amended: classify never fails; on a table with a column of an
\* unsupported type it still returns the three buckets, a boolean column being
\* silently left out of all of them and a nested-structure column being listed
\* as Categorical.
C3_UnsupportedColumnNotRejected ==
  Classified =>
    \A j \in ColumnIndices :
      /\ ValuedAs(j, {"bool"}) => ~IsIn(employee_data[j].name, AllBuckets)
      /\ ValuedAs(j, {"list"}) =>
           /\ IsIn(employee_data[j].name, categorical_cols)
           /\ ~IsIn(employee_data[j].name, discrete_cols \o continuous_cols)

C3_Witness ==
  /\ Classified
  /\ Len(df) = 2
  /\ ValuedAs(1, {"list"})
  /\ ValuedAs(2, {"bool"})
  /\ categorical_cols = <<"c1">>

\* ---- C4 ----------------------------------------------------------
ColumnValues(name) == Col(df, name).values
FirstSeen(values, v) == SetMin({k \in 1..Len(values) : values[k] = v})
Pair(text, n) == [category |-> StrV(text), count |-> n]
CategoricalReturned == out.cell = "categorical" /\ out.error = ""

EmployeeCounts(name) ==
  CASE name = "department" ->
         <<Pair("Engineering", 4), Pair("Marketing", 2), Pair("Sales", 2),
           Pair("HR", 1), Pair("Finance", 1)>>
    [] name = "education_level" -> <<Pair("Bachelor", 5), Pair("Master", 4), Pair("PhD", 1)>>
    [] name = "performance_rating" -> <<Pair("Good", 4), Pair("Excellent", 4), Pair("Average", 2)>>
    [] OTHER -> <<>>

\* C4: what summarizeCategorical returns for a column is one (category, count)
\* pair per distinct value, count being the value's number of occurrences,
\* ordered by descending count with ties in first-seen order, and uniqueCount
\* is the number of pairs; department, education_level and performance_rating
\* of the employee table give the stated tables with uniqueCount 5, 3 and 3.
C4_FrequencyTable ==
  CategoricalReturned =>
    LET values == ColumnValues(out.col)
        pairs == out.counts
    IN  /\ {pairs[k].category : k \in 1..Len(pairs)} = Range(values)
        /\ \A a, b \in 1..Len(pairs) : a # b => pairs[a].category # pairs[b].category
        /\ \A k \in 1..Len(pairs) : pairs[k].count = Occurrences(values, pairs[k].category)
        /\ \A a, b \in 1..Len(pairs) :
             a < b => \/ pairs[a].count > pairs[b].count
                      \/ /\ pairs[a].count = pairs[b].count
                         /\ FirstSeen(values, pairs[a].category)
                              < FirstSeen(values, pairs[b].category)
        /\ out.unique = Len(pairs)
        /\ (IsEmployeeTable
              /\ out.col \in {"department", "education_level", "performance_rating"})
             => /\ pairs = EmployeeCounts(out.col)
                /\ out.unique = (IF out.col = "department" THEN 5 ELSE 3)

C4_Witness ==
  /\ IsEmployeeTable
  /\ CategoricalReturned
  /\ out.col = "performance_rating"
  /\ out.counts = <<Pair("Good", 4), Pair("Excellent", 4), Pair("Average", 2)>>
  /\ out.unique = 3

\* ---- C5 ----------------------------------------------------------
\* C5: summarizeNumeric on the salary column of the employee table yields
\* count 10, min 62000.00, max 105000.00, mean 79600.41 (79600410 cents over
\* 10 rows) and median 76500.40 ((7500050 + 7800030) / 2 cents, the mean of the
\* two middle values of the sorted column).
C5_SalaryStatistics ==
  (IsEmployeeTable /\ out.cell = "numeric" /\ out.col = "salary") =>
    LET st == out.stats[1]
    IN  /\ out.error = ""
        /\ st.count = 10
        /\ RatEq(st.min, Rat(6200000, 1))
        /\ RatEq(st.max, Rat(10500000, 1))
        /\ st.mean = Rat(79600410, 10)
        /\ RatEq(st.mean, Rat(7960041, 1))
        /\ st.median = Rat(7500050 + 7800030, 2)
        /\ RatEq(st.median, Rat(7650040, 1))

C5_Witness ==
  /\ IsEmployeeTable
  /\ out.cell = "numeric"
  /\ out.col = "salary"
  /\ out.stats[1].count = 10

\* ---- C6 ----------------------------------------------------------
OneColumnNoRows == Shape(df) = <<0, 1>>

\* C6 as stated: on a table with one column and zero rows summarizeNumeric and
\* summarizeCategorical each raise EmptyColumnError.
C6_EmptyColumnRaises ==
  (OneColumnNoRows /\ out.cell \in {"numeric", "categorical"}) => out.error = "EmptyColumnError"

\* C6 amended: on a table with one column and zero rows neither operation
\* raises: summarizeNumeric returns count 0 with NaN for min, max, mean and
\* median, and summarizeCategorical returns the empty sequence of pairs with
\* uniqueCount 0.
C6_EmptyColumnReturnsNaN ==
  OneColumnNoRows =>
    /\ out.cell = "numeric" =>
         /\ out.error = ""
         /\ out.stats[1].count = 0
         /\ out.stats[1].min.nan /\ out.stats[1].max.nan
         /\ out.stats[1].mean.nan /\ out.stats[1].median.nan
    /\ out.cell = "categorical" => (out.error = "" /\ out.counts = <<>> /\ out.unique = 0)

C6_Witness == OneColumnNoRows /\ out.cell = "numeric" /\ out.stats[1].mean.nan

\* ---- C7 ----------------------------------------------------------
\* C7 as stated: summarizeCategorical returns a result, never an error, on
\* every column.
C7_NeverFails == out.cell = "categorical" => out.error = ""

\* C7 amended: summarizeCategorical returns a result on every column whose
\* values are hashable (text, numbers, booleans), the column without rows
\* included, for which it returns the empty sequence and uniqueCount = 0; on a
\* column of nested structures it fails with TypeError.
C7_FailsOnlyOnUnhashable ==
  out.cell = "categorical" =>
    LET values == ColumnValues(out.col)
    IN  /\ out.error = (IF \E k \in 1..Len(values) : values[k].t = "list"
                        THEN "TypeError" ELSE "")
        /\ values = <<>> => (out.error = "" /\ out.counts = <<>> /\ out.unique = 0)

C7_Witness ==
  /\ out.cell = "categorical"
  /\ ColumnValues(out.col) = <<>>
  /\ out.error = ""
  /\ out.counts = <<>>
  /\ out.unique = 0

\* ---- C8 ----------------------------------------------------------
\* C8: every describeTable call on the table produces the same output as
\* every other one, whatever other operations ran before or between them.
C8_DescribeIdempotent ==
  \A a, b \in 1..Len(reports) : reports[a] = reports[b]

C8_Witness ==
  /\ Len(reports) >= 2
  /\ Classified
  /\ out.cell # "none"
  /\ reports[1].entries # <<>>
  /\ reports[2] = reports[1]

\* ---- C9 ----------------------------------------------------------
\* C9: after any sequence of operations the table still is the table built
\* from the literal: same column names in the same order, same row count,
\* same cell values, all columns of one length; 10 rows and 7 columns for the
\* employee table.
C9_TableNeverMutated ==
  /\ df = DataFrame(employee_data)
  /\ Columns(df) = [j \in ColumnIndices |-> employee_data[j].name]
  /\ \A j \in 1..Len(df) : Len(df[j].values) = Shape(df)[1]
  /\ IsEmployeeTable =>
       /\ Shape(df) = <<10, 7>>
       /\ Columns(df) = <<"employee_id", "name", "department", "years_experience",
                          "salary", "education_level", "performance_rating">>
       /\ \A j \in 1..7 : df[j].values = employee_literal[j].values

C9_Witness ==
  /\ IsEmployeeTable
  /\ Classified
  /\ out.cell = "numeric"
  /\ out.col = "salary"
  /\ Len(reports) >= 1
  /\ Shape(df) = <<10, 7>>

\* ---- C10 ---------------------------------------------------------
EntryNames(report) == [k \in 1..Len(report.entries) |-> report.entries[k].name]
NumericColumnNames ==
  LET numeric == SelectSeq(employee_data,
                           LAMBDA c : /\ c.values # <<>>
                                      /\ \A k \in 1..Len(c.values) : c.values[k].t \in {"int", "float"})
  IN  [k \in 1..Len(numeric) |-> numeric[k].name]

\* C10 as stated: the report has exactly one entry per column of the table,
\* keyed by column name, numeric for a Discrete or Continuous column and
\* categorical for a Nominal or Ordinal one; all seven columns of the employee
\* table have an entry.  (A call that fails produces no report.)
C10_OneEntryPerColumn ==
  \A a \in 1..Len(reports) :
    /\ reports[a].error = "" => EntryNames(reports[a]) = Columns(df)
    /\ IsEmployeeTable =>
         \A k \in 1..Len(reports[a].entries) :
           LET e == reports[a].entries[k]
           IN  e.kind = (IF TypeCategory(e.name) \in {"Discrete", "Continuous"}
                         THEN "numeric" ELSE "object")

\* C10 amended: the report has one entry, keyed by column name and in table
\* order, for each numeric (integer- or floating-point-valued) column and for
\* no other column, each entry holding that column's numeric summary; the
\* employee table gives three entries, employee_id, years_experience and
\* salary, and none for name, department, education_level and
\* performance_rating.  Only a table without any numeric column is reported
\* column by column, each entry holding count, number of distinct values, most
\* frequent value and its frequency, unless a column holds nested structures,
\* which makes the call fail with TypeError.
C10_EntriesForNumericColumns ==
  \A a \in 1..Len(reports) :
    LET r == reports[a]
    IN  /\ NumericColumnNames # <<>> =>
             /\ r.error = ""
             /\ EntryNames(r) = NumericColumnNames
             /\ \A k \in 1..Len(r.entries) :
                  /\ r.entries[k].kind = "numeric"
                  /\ r.entries[k].stats = NumericStats(ColumnValues(r.entries[k].name))
        /\ (NumericColumnNames = <<>> /\ \E j \in ColumnIndices : ValuedAs(j, {"list"})) =>
             (r.error = "TypeError" /\ r.entries = <<>>)
        /\ (NumericColumnNames = <<>> /\ ~\E j \in ColumnIndices : ValuedAs(j, {"list"})) =>
             /\ r.error = ""
             /\ EntryNames(r) = Columns(df)
             /\ \A k \in 1..Len(r.entries) :
                  LET values == ColumnValues(r.entries[k].name)
                      st == r.entries[k].stats
                  IN  /\ r.entries[k].kind = "object"
                      /\ st.count = Len(values)
                      /\ st.unique = Cardinality(Range(values))
                      /\ values # <<>> =>
                           /\ st.freq = Rat(Occurrences(values, st.top[1]), 1)
                           /\ \A v \in Range(values) :
                                Occurrences(values, v) <= Occurrences(values, st.top[1])
        /\ IsEmployeeTable => EntryNames(r) = <<"employee_id", "years_experience", "salary">>

C10_Witness ==
  /\ IsEmployeeTable
  /\ Len(reports) >= 1
  /\ reports[1].error = ""
  /\ EntryNames(reports[1]) = <<"employee_id", "years_experience", "salary">>

\* ---- C11 ---------------------------------------------------------
HoldsNested(name) ==
  \E j \in ColumnIndices : employee_data[j].name = name /\ ValuedAs(j, {"list"})

\* The position in `names` of the first column whose summary fails, 0 if none.
FirstFailing(names) ==
  IF \E k \in 1..Len(names) : HoldsNested(names[k])
  THEN SetMin({k \in 1..Len(names) : HoldsNested(names[k])})
  ELSE 0

DescribeFailsAtomically ==
  \A a \in 1..Len(reports) :
    LET f == FirstFailing(Columns(df))
    IN  IF reports[a].error = ""
        THEN reports[a].failed = ""
        ELSE /\ f > 0
             /\ reports[a].failed = Columns(df)[f]
             /\ reports[a].entries = <<>>

====
